---------------------------- MODULE Spec2Model ----------------------------
(***************************************************************************)
(* libskiller: the Skiller Pro+ keyboard control library (src/src/lib.rs). *)
(*                                                                         *)
(* Three specifications share the definitions below:                      *)
(*   SpecNew   device discovery, SkillerProPlus::new, one libusb call per  *)
(*             step, each call's outcome chosen by the USB stack;          *)
(*   Spec      one caller using a constructed session: the five public     *)
(*             operations, one control transfer per step;                  *)
(*   SpecConc  two callers sharing one session (&self methods of a Sync    *)
(*             type), with or without an external mutex, with the order    *)
(*             in which frames reach the device recorded in wire.          *)
(***************************************************************************)
EXTENDS Integers, Sequences, FiniteSets

VARIABLES
    bus,        \* the devices the bus enumerates, in enumeration order
    timeoutArg, \* the timeout argument given to new
    npc,        \* position of new: ctx, list, desc, open, query, detach, done
    idx,        \* index in bus of the device the loop of new is at
    usb,        \* the libusb calls new has made, in order, with outcomes
    result,     \* what new returned: pending, Err, OkNone, OkSome
    session,    \* the SkillerProPlus value new returned (or NoSession)
    pc,         \* per caller: idle, write (inside an operation), done
    call,       \* per caller: the operation called and its arguments
    sent,       \* per caller: the control transfers its call issued so far
    total,      \* per caller: total_written
    ret,        \* per caller: the value its call returned
    callId,     \* per caller: the number of its call (history runs only)
    ncalls,     \* calls begun (history runs only)
    wire,       \* all callers' transfers in the order issued (history runs only)
    serialized, \* whether the callers wrap each operation in a mutex
    mutex       \* the caller holding that mutex, 0 when free

vars == <<bus, timeoutArg, npc, idx, usb, result, session, pc, call, sent,
          total, ret, callId, ncalls, wire, serialized, mutex>>

newVars == <<bus, timeoutArg, npc, idx, usb, result, session>>
opVars == <<pc, call, sent, total, ret, callId, ncalls, wire, serialized, mutex>>

---------------------------------------------------------------------------
(* Bounds of the model *)

MaxTimeout == 2
MaxDevices == 2
MaxCalls == 2

---------------------------------------------------------------------------
(* Program constants *)

INTERFACE == 1
VID == 1241
PID == 41110
FrameLen == 8
Request == 9
Value == 775
Index == 1

---------------------------------------------------------------------------
(* The enums and their encoders *)

Colors == {"Red", "Green", "Blue", "Purple", "Cyan", "Yellow", "White"}
Profiles == {"P1", "P2", "P3"}
PollingRates == {"HZ125", "HZ250", "HZ500", "HZ1000"}
Levels == {0, 11, 50, 255}

Brightnesses(LS, CS) ==
    [kind : {"Static"}, level : LS, color : CS]
        \cup [kind : {"Pulsating"}, color : CS]
        \cup {[kind |-> "Cycle"]}

(* Variants of the definitions below, each changed the way a slip in the
   code would change it; the properties at the end of the module are checked
   to tell each from the definition it varies. *)
PollingRateBytesAscending(r) ==
    CASE r = "HZ125" -> 1
      [] r = "HZ250" -> 2
      [] r = "HZ500" -> 4
      [] r = "HZ1000" -> 8

BoolBytesDirect(b) == IF b THEN 1 ELSE 0

ColorBytes(c) ==
    CASE c = "Red" -> 0
      [] c = "Green" -> 1
      [] c = "Blue" -> 2
      [] c = "Purple" -> 3
      [] c = "Cyan" -> 4
      [] c = "Yellow" -> 5
      [] c = "White" -> 6

ProfileBytes(p) ==
    CASE p = "P1" -> 1
      [] p = "P2" -> 2
      [] p = "P3" -> 3

PollingRateBytes(r) ==
    CASE r = "HZ125" -> 8
      [] r = "HZ250" -> 4
      [] r = "HZ500" -> 2
      [] r = "HZ1000" -> 1

BoolBytes(b) == IF b THEN 0 ELSE 1

switch_profile(profile) == <<7, 2, profile, 0, 0, 0, 0, 0>>

ColorPayloadSwapped(color, profile) ==
    <<7, 10, ColorBytes(color), 10, 4, 0, ProfileBytes(profile), 0>>

BrightnessPayloadSentinelsSwapped(brightness, profile) ==
    CASE brightness.kind = "Static" ->
            <<7, 10, ProfileBytes(profile), brightness.level, 4, 0,
              ColorBytes(brightness.color), 0>>
      [] brightness.kind = "Pulsating" ->
            <<7, 10, ProfileBytes(profile), 12, 4, 0,
              ColorBytes(brightness.color), 0>>
      [] brightness.kind = "Cycle" ->
            <<7, 10, ProfileBytes(profile), 11, 4, 0, 0, 0>>

ColorPayload(color, profile) ==
    <<7, 10, ProfileBytes(profile), 10, 4, 0, ColorBytes(color), 0>>

BrightnessPayload(brightness, profile) ==
    CASE brightness.kind = "Static" ->
            <<7, 10, ProfileBytes(profile), brightness.level, 4, 0,
              ColorBytes(brightness.color), 0>>
      [] brightness.kind = "Pulsating" ->
            <<7, 10, ProfileBytes(profile), 11, 4, 0,
              ColorBytes(brightness.color), 0>>
      [] brightness.kind = "Cycle" ->
            <<7, 10, ProfileBytes(profile), 12, 4, 0, 0, 0>>

PollingRatePayload(rate) == <<7, 1, PollingRateBytes(rate), 0, 0, 0, 0, 0>>

WinKeyPayload(enable, profile) ==
    <<7, 11, ProfileBytes(profile), BoolBytes(enable), 0, 0, 0, 0>>

FramesPayloadFirst(c) ==
    CASE c.op = "set_color" ->
            <<ColorPayload(c.color, c.profile),
              switch_profile(ProfileBytes(c.profile))>>
      [] c.op = "set_profile" ->
            <<switch_profile(ProfileBytes(c.profile))>>
      [] c.op = "set_brightness" ->
            <<BrightnessPayload(c.brightness, c.profile),
              switch_profile(ProfileBytes(c.profile))>>
      [] c.op = "set_polling_rate" ->
            <<PollingRatePayload(c.rate)>>
      [] c.op = "set_win_key" ->
            <<WinKeyPayload(c.enable, c.profile)>>

(* The frames an operation writes, in the order of its skiller_write calls *)
Frames(c) ==
    CASE c.op = "set_color" ->
            <<switch_profile(ProfileBytes(c.profile)),
              ColorPayload(c.color, c.profile)>>
      [] c.op = "set_profile" ->
            <<switch_profile(ProfileBytes(c.profile))>>
      [] c.op = "set_brightness" ->
            <<switch_profile(ProfileBytes(c.profile)),
              BrightnessPayload(c.brightness, c.profile)>>
      [] c.op = "set_polling_rate" ->
            <<PollingRatePayload(c.rate)>>
      [] c.op = "set_win_key" ->
            <<WinKeyPayload(c.enable, c.profile)>>


---------------------------------------------------------------------------
(* The USB stack as the library sees it *)

Callers == {1, 2}
UsbErrors == {"Io", "Timeout", "NoDevice"}

(* What write_control can return: Ok(bytes transferred) or Err(error) *)
WriteOutcomes ==
    [ok : {TRUE}, n : 0..FrameLen] \cup [ok : {FALSE}, err : UsbErrors]

Devices == [vid : {VID, VID + 1}, pid : {PID, PID + 1}]
Keyboard == [vid |-> VID, pid |-> PID]
Buses == UNION {[1..n -> Devices] : n \in 0..MaxDevices}
Timeouts == 1..MaxTimeout

NoSession == [handle |-> 0, timeout |-> 0]
NoCall == [op |-> "none"]
NoRet == [ok |-> FALSE, err |-> "none"]

(* one libusb call of new: the device it is made on (0: none), the interface
   it names (0: none) and its outcome *)
UsbCall(fn, dev, iface, res) == [fn |-> fn, dev |-> dev, iface |-> iface, res |-> res]

---------------------------------------------------------------------------
(* SkillerProPlus::new *)

MatchesEither(d) == ~(d.vid # VID /\ d.pid # PID)

NotFoundIsError == "Err"

(* the loop's test: `vendor_id != VID || product_id != PID` skips the device *)
Matches(d) == ~(d.vid # VID \/ d.pid # PID)

(* the value new yields when the loop ends without a matching device *)
NotFound == "OkNone"

(* an early return through `?` *)
Fail ==
    /\ npc' = "done"
    /\ result' = "Err"
    /\ session' = NoSession
    /\ idx' = idx

new_context ==
    /\ npc = "ctx"
    /\ \E ok \in BOOLEAN :
        /\ usb' = Append(usb, UsbCall("Context::new", 0, 0, IF ok THEN "ok" ELSE "err"))
        /\ IF ok
             THEN npc' = "list" /\ UNCHANGED <<idx, result, session>>
             ELSE Fail
    /\ UNCHANGED <<bus, timeoutArg, opVars>>

new_devices ==
    /\ npc = "list"
    /\ \E ok \in BOOLEAN :
        /\ usb' = Append(usb, UsbCall("devices", 0, 0, IF ok THEN "ok" ELSE "err"))
        /\ IF ok
             THEN npc' = "desc" /\ idx' = 1 /\ UNCHANGED <<result, session>>
             ELSE Fail
    /\ UNCHANGED <<bus, timeoutArg, opVars>>

new_descriptor ==
    /\ npc = "desc"
    /\ idx <= Len(bus)
    /\ \E ok \in BOOLEAN :
        /\ usb' = Append(usb, UsbCall("device_descriptor", idx, 0, IF ok THEN "ok" ELSE "err"))
        /\ IF ~ok
             THEN Fail
             ELSE IF Matches(bus[idx])
                    THEN npc' = "open" /\ UNCHANGED <<idx, result, session>>
                    ELSE idx' = idx + 1 /\ UNCHANGED <<npc, result, session>>
    /\ UNCHANGED <<bus, timeoutArg, opVars>>

new_not_found ==
    /\ npc = "desc"
    /\ idx > Len(bus)
    /\ npc' = "done"
    /\ result' = NotFound
    /\ UNCHANGED <<bus, timeoutArg, idx, usb, session, opVars>>

new_open ==
    /\ npc = "open"
    /\ \E ok \in BOOLEAN :
        /\ usb' = Append(usb, UsbCall("open", idx, 0, IF ok THEN "ok" ELSE "err"))
        /\ IF ok
             THEN npc' = "query" /\ UNCHANGED <<idx, result, session>>
             ELSE Fail
    /\ UNCHANGED <<bus, timeoutArg, opVars>>

(* whether the answer of kernel_driver_active leads to detach_kernel_driver *)
NeedsDetach(res) == res = "true"

(* return Ok(Some(SkillerProPlus { handle, timeout })) *)
ReturnSession ==
    /\ npc' = "done"
    /\ result' = "OkSome"
    /\ session' = [handle |-> idx, timeout |-> timeoutArg]
    /\ idx' = idx

new_kernel_driver_active ==
    /\ npc = "query"
    /\ \E res \in {"true", "false", "err"} :
        /\ usb' = Append(usb, UsbCall("kernel_driver_active", idx, INTERFACE, res))
        /\ IF res = "err"
             THEN Fail
             ELSE IF NeedsDetach(res)
                    THEN npc' = "detach" /\ UNCHANGED <<idx, result, session>>
                    ELSE ReturnSession
    /\ UNCHANGED <<bus, timeoutArg, opVars>>

new_detach_kernel_driver ==
    /\ npc = "detach"
    /\ \E ok \in BOOLEAN :
        /\ usb' = Append(usb, UsbCall("detach_kernel_driver", idx, INTERFACE,
                              IF ok THEN "ok" ELSE "err"))
        /\ IF ok THEN ReturnSession ELSE Fail
    /\ UNCHANGED <<bus, timeoutArg, opVars>>

---------------------------------------------------------------------------
(* The setting operations *)

skiller_write_default_timeout(s, data, out) ==
    [direction |-> "Out", type |-> "Class", recipient |-> "Interface",
     request |-> Request, value |-> Value, index |-> Index,
     data |-> data, timeout |-> 1, res |-> out]

ContinuesAnyway(out) == TRUE

AccumulateLast(tot, n) == n

(* the control transfer skiller_write issues for one frame *)
skiller_write(s, data, out) ==
    [direction |-> "Out", type |-> "Class", recipient |-> "Interface",
     request |-> Request, value |-> Value, index |-> Index,
     data |-> data, timeout |-> s.timeout, res |-> out]

(* `skiller_write(..)?`: the operation goes on only after an Ok *)
Continues(out) == out.ok

(* `total_written += ..` *)
Accumulate(tot, n) == tot + n

(* the caller's mutex around a whole operation (external serialization) *)
MutexFree == serialized => mutex = 0
MutexAfterEnter(t) == IF serialized THEN t ELSE mutex
MutexAfterReturn(t) == IF mutex = t THEN 0 ELSE mutex

(* entry of a public operation: arguments bound, total_written = 0 *)
Enter(t, c, hist) ==
    /\ pc[t] = "idle"
    /\ MutexFree
    /\ hist => ncalls < MaxCalls
    /\ call' = [call EXCEPT ![t] = c]
    /\ sent' = [sent EXCEPT ![t] = <<>>]
    /\ total' = [total EXCEPT ![t] = 0]
    /\ ret' = [ret EXCEPT ![t] = NoRet]
    /\ pc' = [pc EXCEPT ![t] = "write"]
    /\ ncalls' = IF hist THEN ncalls + 1 ELSE ncalls
    /\ callId' = [callId EXCEPT ![t] = IF hist THEN ncalls + 1 ELSE 0]
    /\ mutex' = MutexAfterEnter(t)
    /\ UNCHANGED <<wire, serialized, newVars>>

set_color(t, CS, PS, hist) ==
    /\ session # NoSession
    /\ \E color \in CS, profile \in PS :
            Enter(t, [op |-> "set_color", color |-> color, profile |-> profile], hist)

set_profile(t, PS, hist) ==
    /\ session # NoSession
    /\ \E profile \in PS :
            Enter(t, [op |-> "set_profile", profile |-> profile], hist)

set_brightness(t, BS, PS, hist) ==
    /\ session # NoSession
    /\ \E brightness \in BS, profile \in PS :
            Enter(t, [op |-> "set_brightness", brightness |-> brightness,
                      profile |-> profile], hist)

set_polling_rate(t, RS, hist) ==
    /\ session # NoSession
    /\ \E rate \in RS :
            Enter(t, [op |-> "set_polling_rate", rate |-> rate], hist)

set_win_key(t, PS, hist) ==
    /\ session # NoSession
    /\ \E enable \in BOOLEAN, profile \in PS :
            Enter(t, [op |-> "set_win_key", enable |-> enable, profile |-> profile], hist)

(* the next skiller_write of caller t's operation, and the return after it *)
Transfer(t, Outs, hist) ==
    /\ pc[t] = "write"
    /\ \E out \in Outs :
        LET k == Len(sent[t]) + 1
            data == Frames(call[t])[k]
            last == k = Len(Frames(call[t]))
            tot == IF out.ok THEN Accumulate(total[t], out.n) ELSE total[t]
            returns == ~Continues(out) \/ last
        IN  /\ sent' = [sent EXCEPT ![t] = Append(@, skiller_write(session, data, out))]
            /\ wire' = IF hist
                         THEN Append(wire, [caller |-> t, id |-> callId[t],
                                            data |-> data, ok |-> out.ok])
                         ELSE wire
            /\ total' = [total EXCEPT ![t] = tot]
            /\ pc' = [pc EXCEPT ![t] = IF returns THEN "done" ELSE "write"]
            /\ ret' = [ret EXCEPT ![t] =
                          IF ~returns THEN NoRet
                          ELSE IF out.ok THEN [ok |-> TRUE, n |-> tot]
                          ELSE [ok |-> FALSE, err |-> out.err]]
            /\ mutex' = IF returns THEN MutexAfterReturn(t) ELSE mutex
    /\ UNCHANGED <<call, callId, ncalls, serialized, newVars>>

(* the caller has taken the returned value; the operation's locals are gone *)
Resume(t) ==
    /\ pc[t] = "done"
    /\ pc' = [pc EXCEPT ![t] = "idle"]
    /\ call' = [call EXCEPT ![t] = NoCall]
    /\ sent' = [sent EXCEPT ![t] = <<>>]
    /\ total' = [total EXCEPT ![t] = 0]
    /\ ret' = [ret EXCEPT ![t] = NoRet]
    /\ callId' = [callId EXCEPT ![t] = 0]
    /\ UNCHANGED <<ncalls, wire, serialized, mutex, newVars>>

---------------------------------------------------------------------------
(* Specifications *)

OpsIdle ==
    /\ pc = [t \in Callers |-> "idle"]
    /\ call = [t \in Callers |-> NoCall]
    /\ sent = [t \in Callers |-> <<>>]
    /\ total = [t \in Callers |-> 0]
    /\ ret = [t \in Callers |-> NoRet]
    /\ callId = [t \in Callers |-> 0]
    /\ ncalls = 0
    /\ wire = <<>>
    /\ mutex = 0

(* before new(timeout) is called *)
InitNew ==
    /\ bus \in Buses
    /\ timeoutArg \in Timeouts
    /\ npc = "ctx"
    /\ idx = 0
    /\ usb = <<>>
    /\ result = "pending"
    /\ session = NoSession
    /\ serialized = FALSE
    /\ OpsIdle

(* after new(timeout) returned Ok(Some(session)) for the keyboard *)
Constructed(TS) ==
    /\ bus = <<Keyboard>>
    /\ timeoutArg \in TS
    /\ npc = "done"
    /\ idx = 1
    /\ usb = <<UsbCall("Context::new", 0, 0, "ok"), UsbCall("devices", 0, 0, "ok"),
               UsbCall("device_descriptor", 1, 0, "ok"), UsbCall("open", 1, 0, "ok"),
               UsbCall("kernel_driver_active", 1, INTERFACE, "true"),
               UsbCall("detach_kernel_driver", 1, INTERFACE, "ok")>>
    /\ result = "OkSome"
    /\ session = [handle |-> 1, timeout |-> timeoutArg]

Init ==
    /\ Constructed(Timeouts)
    /\ serialized = FALSE
    /\ OpsIdle

InitConc ==
    /\ Constructed({MaxTimeout})
    /\ serialized \in BOOLEAN
    /\ OpsIdle

NextNew ==
    \/ new_context
    \/ new_devices
    \/ new_descriptor
    \/ new_not_found
    \/ new_open
    \/ new_kernel_driver_active
    \/ new_detach_kernel_driver

Next ==
    \/ set_color(1, Colors, Profiles, FALSE)
    \/ set_profile(1, Profiles, FALSE)
    \/ set_brightness(1, Brightnesses(Levels, Colors), Profiles, FALSE)
    \/ set_polling_rate(1, PollingRates, FALSE)
    \/ set_win_key(1, Profiles, FALSE)
    \/ Transfer(1, WriteOutcomes, FALSE)
    \/ Resume(1)

ConcColors == {"Blue"}
ConcProfiles == {"P1", "P2"}
ConcBrightnesses == {[kind |-> "Cycle"]}
ConcOutcomes == {[ok |-> TRUE, n |-> FrameLen], [ok |-> FALSE, err |-> "Io"]}

NextConc ==
    \E t \in Callers :
        \/ set_color(t, ConcColors, ConcProfiles, TRUE)
        \/ set_brightness(t, ConcBrightnesses, ConcProfiles, TRUE)
        \/ Transfer(t, ConcOutcomes, TRUE)
        \/ Resume(t)

Spec == Init /\ [][Next]_vars
SpecNew == InitNew /\ [][NextNew]_vars
SpecConc == InitConc /\ [][NextConc]_vars

---------------------------------------------------------------------------
(* Properties of the setting operations (Spec) *)

TwoFrame(c) == c.op \in {"set_color", "set_brightness"}

(* the frames of caller t's call that the device received *)
Received(t) == SelectSeq(sent[t], LAMBDA x : x.res.ok)

(* the byte codes as the documentation of the protocol gives them *)
ProfileCode == [P1 |-> 1, P2 |-> 2, P3 |-> 3]
ColorCode ==
    [Red |-> 0, Green |-> 1, Blue |-> 2, Purple |-> 3, Cyan |-> 4,
     Yellow |-> 5, White |-> 6]
RateCode == [HZ125 |-> 8, HZ250 |-> 4, HZ500 |-> 2, HZ1000 |-> 1]
RateHz == [HZ125 |-> 125, HZ250 |-> 250, HZ500 |-> 500, HZ1000 |-> 1000]

(* C1: in set_color and set_brightness the profile-switch frame is written
   first and the payload frame second; the first write that fails is the
   last write of the operation (no second write after a failed first, no
   retry or rollback after a failed second) and the operation returns that
   error; after a failed call the device has received no frame or exactly
   the profile-switch frame. *)
C1_FirstFailureEnds ==
    \A t \in Callers :
        TwoFrame(call[t]) =>
            /\ Len(sent[t]) <= 2
            /\ Len(sent[t]) >= 1 =>
                   sent[t][1].data = <<7, 2, ProfileCode[call[t].profile], 0, 0, 0, 0, 0>>
            /\ Len(sent[t]) = 2 =>
                   /\ sent[t][1].res.ok
                   /\ sent[t][2].data[2] = 10
            /\ \A k \in 1..Len(sent[t]) :
                   ~sent[t][k].res.ok =>
                       /\ k = Len(sent[t])
                       /\ pc[t] = "done"
                       /\ ret[t] = [ok |-> FALSE, err |-> sent[t][k].res.err]
            /\ (pc[t] = "done" /\ ~ret[t].ok) =>
                   \/ Received(t) = <<>>
                   \/ /\ Len(Received(t)) = 1
                      /\ Received(t)[1].data[2] = 2

C1_Witness ==
    /\ pc[1] = "done"
    /\ call[1].op = "set_brightness"
    /\ Len(sent[1]) = 2
    /\ sent[1][1].res.ok
    /\ ~sent[1][2].res.ok
    /\ ret[1] = [ok |-> FALSE, err |-> "Timeout"]

(* C2: a successful set_color(c, p) emits exactly two frames, first
   [7,2,code(p),0,0,0,0,0], the frame set_profile(p) emits, then
   [7,10,code(p),10,4,0,code(c),0], with code(p) in 1..3 and code(c) a
   distinct byte in 0..6; set_color(Blue, P2) emits [7,2,2,0,0,0,0,0] then
   [7,10,2,10,4,0,2,0]. *)
C2_SetColorFrames ==
    \A t \in Callers :
        (call[t].op = "set_color" /\ pc[t] = "done" /\ ret[t].ok) =>
            /\ Len(sent[t]) = 2
            /\ sent[t][1].data =
                   <<7, 2, ProfileCode[call[t].profile], 0, 0, 0, 0, 0>>
            /\ sent[t][1].data =
                   Frames([op |-> "set_profile", profile |-> call[t].profile])[1]
            /\ sent[t][2].data =
                   <<7, 10, ProfileCode[call[t].profile], 10, 4, 0,
                     ColorCode[call[t].color], 0>>
            /\ (call[t].color = "Blue" /\ call[t].profile = "P2") =>
                   /\ sent[t][1].data = <<7, 2, 2, 0, 0, 0, 0, 0>>
                   /\ sent[t][2].data = <<7, 10, 2, 10, 4, 0, 2, 0>>

C2_Witness ==
    /\ pc[1] = "done"
    /\ call[1] = [op |-> "set_color", color |-> "Blue", profile |-> "P2"]
    /\ ret[1] = [ok |-> TRUE, n |-> 16]
    /\ sent[1][2].data = <<7, 10, 2, 10, 4, 0, 2, 0>>

(* C3: the second frame of set_brightness(b, p) is [7,10,code(p),L,4,0,C,0]
   with L the caller's level and C the color code for Static, L = 11 and C
   the color code for Pulsating, L = 12 and C = 0 for Cycle;
   set_brightness(Static{50, Red}, P1) emits [7,10,1,50,4,0,0,0]. *)
C3_SetBrightnessFrame ==
    \A t \in Callers :
        (call[t].op = "set_brightness" /\ Len(sent[t]) = 2) =>
            LET b == call[t].brightness
                P == ProfileCode[call[t].profile]
                f == sent[t][2].data
            IN  /\ b.kind = "Static" =>
                       f = <<7, 10, P, b.level, 4, 0, ColorCode[b.color], 0>>
                /\ b.kind = "Pulsating" =>
                       f = <<7, 10, P, 11, 4, 0, ColorCode[b.color], 0>>
                /\ b.kind = "Cycle" => f = <<7, 10, P, 12, 4, 0, 0, 0>>
                /\ (b = [kind |-> "Static", level |-> 50, color |-> "Red"]
                        /\ call[t].profile = "P1") =>
                       f = <<7, 10, 1, 50, 4, 0, 0, 0>>

C3_Witness ==
    /\ call[1] = [op |-> "set_brightness",
                  brightness |-> [kind |-> "Static", level |-> 50, color |-> "Red"],
                  profile |-> "P1"]
    /\ Len(sent[1]) = 2
    /\ sent[1][2].data = <<7, 10, 1, 50, 4, 0, 0, 0>>

(* C4: set_win_key(e, p) issues exactly one write, with no profile-switch
   frame before it, of the frame [7,11,code(p),f,0,0,0,0] where f = 0 when e
   is true and f = 1 when e is false. *)
C4_SetWinKeyFrame ==
    \A t \in Callers :
        call[t].op = "set_win_key" =>
            /\ Len(sent[t]) <= 1
            /\ pc[t] = "done" => Len(sent[t]) = 1
            /\ Len(sent[t]) = 1 =>
                   sent[t][1].data =
                       <<7, 11, ProfileCode[call[t].profile],
                         IF call[t].enable THEN 0 ELSE 1, 0, 0, 0, 0>>

C4_Witness ==
    /\ pc[1] = "done"
    /\ call[1] = [op |-> "set_win_key", enable |-> TRUE, profile |-> "P3"]
    /\ sent[1][1].data = <<7, 11, 3, 0, 0, 0, 0, 0>>
    /\ ret[1].ok

(* C5: set_polling_rate(r) issues exactly one write of the frame
   [7,1,code(r),0,0,0,0,0] with code 8, 4, 2, 1 for 125, 250, 500, 1000 Hz:
   the codes are distinct and decrease as the frequency increases. *)
C5_SetPollingRateFrame ==
    /\ \A t \in Callers :
        call[t].op = "set_polling_rate" =>
            /\ Len(sent[t]) <= 1
            /\ pc[t] = "done" => Len(sent[t]) = 1
            /\ Len(sent[t]) = 1 =>
                   sent[t][1].data = <<7, 1, RateCode[call[t].rate], 0, 0, 0, 0, 0>>
    /\ \A r1, r2 \in PollingRates :
        RateHz[r1] < RateHz[r2] =>
            PollingRatePayload(r1)[3] > PollingRatePayload(r2)[3]

C5_Witness ==
    /\ pc[1] = "done"
    /\ call[1] = [op |-> "set_polling_rate", rate |-> "HZ125"]
    /\ sent[1][1].data = <<7, 1, 8, 0, 0, 0, 0, 0>>
    /\ ret[1].ok

(* C7: every frame handed to the USB write is 8 bytes, byte 0 is 0x07 and
   byte 1 is one of 0x01, 0x02, 0x0a, 0x0b; bytes 4..7 are 4, 0, color code,
   0 when byte 1 is 0x0a and zero otherwise; every write is an out, class,
   interface control transfer with request 9, value 0x0307, index 1 and the
   timeout given when the session was created. *)
C7_EveryFrameWellFormed ==
    \A t \in Callers :
        \A k \in 1..Len(sent[t]) :
            LET x == sent[t][k]
                f == x.data
            IN  /\ Len(f) = 8
                /\ \A i \in 1..8 : f[i] \in 0..255
                /\ f[1] = 7
                /\ f[2] \in {1, 2, 10, 11}
                /\ IF f[2] = 10
                     THEN f[5] = 4 /\ f[6] = 0 /\ f[7] \in 0..6 /\ f[8] = 0
                     ELSE \A i \in 5..8 : f[i] = 0
                /\ x.direction = "Out"
                /\ x.type = "Class"
                /\ x.recipient = "Interface"
                /\ x.request = 9
                /\ x.value = 775
                /\ x.index = 1
                /\ x.timeout = timeoutArg

C7_Witness ==
    /\ pc[1] = "done"
    /\ call[1].op = "set_brightness"
    /\ call[1].brightness.kind = "Pulsating"
    /\ Len(sent[1]) = 2
    /\ sent[1][2].data[7] = 6
    /\ sent[1][2].timeout = 2
    /\ ret[1].ok

(* C10: the count a successful set_color or set_brightness returns is the
   sum of the counts of its two transfers (16 for two full writes); a short
   first write is no failure: the second frame is still sent and the call
   returns Ok with the smaller sum; when the second transfer fails the
   first count is dropped and only the error is returned. *)
C10_ReturnsSumOfCounts ==
    \A t \in Callers :
        TwoFrame(call[t]) =>
            /\ (pc[t] = "done" /\ ret[t].ok) =>
                   /\ Len(sent[t]) = 2
                   /\ ret[t] = [ok |-> TRUE,
                                n |-> sent[t][1].res.n + sent[t][2].res.n]
                   /\ (sent[t][1].res.n = 8 /\ sent[t][2].res.n = 8) => ret[t].n = 16
            /\ (Len(sent[t]) = 1 /\ sent[t][1].res.ok) => pc[t] = "write"
            /\ (Len(sent[t]) = 2 /\ ~sent[t][2].res.ok) =>
                   /\ pc[t] = "done"
                   /\ ret[t] = [ok |-> FALSE, err |-> sent[t][2].res.err]

C10_Witness ==
    /\ pc[1] = "done"
    /\ call[1].op = "set_color"
    /\ Len(sent[1]) = 2
    /\ sent[1][1].res = [ok |-> TRUE, n |-> 3]
    /\ sent[1][2].res = [ok |-> TRUE, n |-> 8]
    /\ ret[1] = [ok |-> TRUE, n |-> 11]

---------------------------------------------------------------------------
(* Properties of discovery (SpecNew) *)

(* the keyboard's identifiers: vendor 0x04d9, product 0xa096 *)
IsKeyboard(d) == d.vid = 1241 /\ d.pid = 41110

UsbCalls(fn) == {k \in 1..Len(usb) : usb[k].fn = fn}

EnumerationSucceeded ==
    \E k \in UsbCalls("devices") : usb[k].res = "ok"

(* C6 as stated: whenever no device the enumeration yields matches the
   vendor and product IDs, new returns Ok(None) and not an error. *)
C6_NoMatchIsNone ==
    (/\ npc = "done"
     /\ EnumerationSucceeded
     /\ \A i \in 1..Len(bus) : ~IsKeyboard(bus[i]))
        => result = "OkNone"

(* C6, amended: whenever no device the enumeration yields matches the vendor
   and product IDs and every device descriptor is read without error, new
   returns Ok(None), having opened no device; a failed descriptor read makes
   it return the error instead. *)
C6_NoMatchIsNoneUnlessReadFails ==
    (/\ npc = "done"
     /\ EnumerationSucceeded
     /\ \A i \in 1..Len(bus) : ~IsKeyboard(bus[i]))
        => /\ UsbCalls("open") = {}
           /\ session = NoSession
           /\ IF \E k \in UsbCalls("device_descriptor") : usb[k].res = "err"
                THEN result = "Err"
                ELSE /\ result = "OkNone"
                     /\ Cardinality(UsbCalls("device_descriptor")) = Len(bus)

C6_Witness ==
    /\ npc = "done"
    /\ result = "OkNone"
    /\ Len(bus) = 2
    /\ bus[1] = [vid |-> 1241, pid |-> 41111]
    /\ bus[2] = [vid |-> 1242, pid |-> 41110]
    /\ Cardinality(UsbCalls("device_descriptor")) = 2

(* C9: only the first device in enumeration order that matches the vendor
   and product IDs is opened; the kernel driver of interface 1 is detached
   if and only if the driver query on that handle answered true, and before
   the session is returned; a failure of any libusb call makes new return
   Err with no session. *)
C9_NewOpensFirstMatch ==
    /\ Cardinality(UsbCalls("open")) <= 1
    /\ \A k \in UsbCalls("open") :
        LET i == usb[k].dev
        IN  /\ i \in 1..Len(bus)
            /\ IsKeyboard(bus[i])
            /\ \A j \in 1..(i - 1) : ~IsKeyboard(bus[j])
    /\ \A k \in UsbCalls("kernel_driver_active") :
        /\ k > 1
        /\ usb[k - 1] = [fn |-> "open", dev |-> usb[k].dev, iface |-> 0, res |-> "ok"]
        /\ usb[k].iface = 1
        /\ usb[k].res = "true" =>
               \/ k = Len(usb) /\ npc = "detach" /\ result = "pending"
               \/ k < Len(usb) /\ usb[k + 1].fn = "detach_kernel_driver"
        /\ usb[k].res # "true" => k = Len(usb)
    /\ \A k \in UsbCalls("detach_kernel_driver") :
        /\ k > 1
        /\ usb[k - 1] = [fn |-> "kernel_driver_active", dev |-> usb[k].dev,
                         iface |-> 1, res |-> "true"]
        /\ usb[k].iface = 1
    /\ result = "OkSome" =>
        /\ \A k \in 1..Len(usb) : usb[k].res # "err"
        /\ \E k \in UsbCalls("open") : session = [handle |-> usb[k].dev, timeout |-> timeoutArg]
        /\ (\E k \in UsbCalls("kernel_driver_active") : usb[k].res = "true")
               <=> (\E k \in UsbCalls("detach_kernel_driver") : usb[k].res = "ok")
    /\ (\E k \in 1..Len(usb) : usb[k].res = "err") =>
        /\ result = "Err"
        /\ npc = "done"
    /\ result # "OkSome" => session = NoSession

C9_Witness ==
    /\ result = "OkSome"
    /\ Len(bus) = 2
    /\ IsKeyboard(bus[1])
    /\ IsKeyboard(bus[2])
    /\ session.handle = 1
    /\ \E k \in UsbCalls("detach_kernel_driver") : usb[k].dev = 1 /\ usb[k].res = "ok"

---------------------------------------------------------------------------
(* Properties of two callers on one session (SpecConc) *)

IsSwitch(x) == x.data[2] = 2
IsPayload(x) == x.data[2] = 10

(* whether the operation numbered id has not returned yet *)
InProgress(id) == \E t \in Callers : pc[t] = "write" /\ callId[t] = id

(* the frames the device received, in order *)
OnWire == SelectSeq(wire, LAMBDA x : x.ok)

(* C8 as stated, for callers that hold a mutex for the whole operation: on
   the wire, the profile-switch frame of each operation that has returned is
   immediately followed by that operation's own payload frame. *)
C8_SwitchAlwaysFollowedByPayload ==
    serialized =>
        \A i \in 1..Len(OnWire) :
            (IsSwitch(OnWire[i]) /\ ~InProgress(OnWire[i].id)) =>
                /\ i < Len(OnWire)
                /\ OnWire[i + 1].id = OnWire[i].id
                /\ IsPayload(OnWire[i + 1])

(* C8, amended: for callers that hold a mutex for the whole operation, the
   transfer issued right after an operation's profile-switch frame reached
   the device is that operation's own payload write, so that on the wire the
   switch frame is immediately followed by its own payload frame unless that
   payload write failed, and no frame of another operation lies between the
   two; without the mutex nothing keeps another caller's operation from
   starting or writing between the two frames. *)
C8_SerializedSwitchThenOwnPayload ==
    /\ serialized =>
        /\ \A i \in 1..Len(wire) :
            (IsSwitch(wire[i]) /\ wire[i].ok) =>
                \/ i = Len(wire) /\ InProgress(wire[i].id)
                \/ /\ i < Len(wire)
                   /\ wire[i + 1].id = wire[i].id
                   /\ IsPayload(wire[i + 1])
                   /\ wire[i + 1].data[3] = wire[i].data[3]
        /\ \A i \in 1..Len(OnWire) :
            IsPayload(OnWire[i]) =>
                /\ i > 1
                /\ OnWire[i - 1].id = OnWire[i].id
                /\ IsSwitch(OnWire[i - 1])
    /\ ~serialized =>
        \A t, u \in Callers :
            (t # u /\ pc[t] = "write" /\ Len(sent[t]) = 1) =>
                /\ (pc[u] = "idle" /\ ncalls < MaxCalls) =>
                       ENABLED set_color(u, ConcColors, ConcProfiles, TRUE)
                /\ pc[u] = "write" => ENABLED Transfer(u, ConcOutcomes, TRUE)

(* two operations interleaved: switch(p1), switch(p2), payload(p1), payload(p2) *)
C8_Witness ==
    /\ ~serialized
    /\ Len(OnWire) = 4
    /\ OnWire[1].id # OnWire[2].id
    /\ OnWire[3].id = OnWire[1].id
    /\ OnWire[4].id = OnWire[2].id
    /\ OnWire[1].data = <<7, 2, 1, 0, 0, 0, 0, 0>>
    /\ OnWire[2].data = <<7, 2, 2, 0, 0, 0, 0, 0>>
    /\ OnWire[3].data = <<7, 10, 1, 10, 4, 0, 2, 0>>
    /\ OnWire[4].data = <<7, 10, 2, 12, 4, 0, 0, 0>>

===========================================================================
